---- MODULE Spec2Model ----
(***************************************************************************)
(* Market-Demand-Analysis: the CSV aggregation pipeline (preprocess.js)    *)
(* and the query server (server.js).                                       *)
(*                                                                         *)
(* Strings that the code trims, lower-cases, searches or parses are        *)
(* sequences of one-character strings; strings the code only copies        *)
(* ('India', 'tons per week', error texts) are TLA+ strings.  A JavaScript *)
(* Map is a sequence of [key, val] entries in insertion order.  A missing  *)
(* CSV column and an empty cell are both the empty sequence: the code      *)
(* reads them only through `||`, which treats undefined and '' alike.      *)
(* Quantities are whole tonnes, for which the double additions of the code *)
(* are exact.                                                              *)
(***************************************************************************)
EXTENDS Integers, Sequences, FiniteSets, Bags, TLC

\* ------------------------------------------------------------------------
\* Bounds
\* ------------------------------------------------------------------------
\* rows delivered by the CSV streams in one aggregation run
MaxRows == 2
\* readings of the wall clock that finalizeData can see after its first one
MaxTicks == 1
\* rows behind a demand.json the server starts on
MaxSnapRows == 2

\* ------------------------------------------------------------------------
\* JavaScript string primitives
\* ------------------------------------------------------------------------
UpperLetters ==
  <<"A", "B", "C", "D", "E", "F", "G", "H", "I", "J", "K", "L", "M",
    "N", "O", "P", "Q", "R", "S", "T", "U", "V", "W", "X", "Y", "Z">>

LowerLetters ==
  <<"a", "b", "c", "d", "e", "f", "g", "h", "i", "j", "k", "l", "m",
    "n", "o", "p", "q", "r", "s", "t", "u", "v", "w", "x", "y", "z">>

Digits == <<"0", "1", "2", "3", "4", "5", "6", "7", "8", "9">>

IsSpace(c) == c = " "

DigitSet == {Digits[i] : i \in 1..10}

IsDigit(c) == c \in DigitSet

DigitVal(c) == (CHOOSE i \in 1..10 : Digits[i] = c) - 1

UpperSet == {UpperLetters[i] : i \in 1..26}

LowerTable ==
  [c \in UpperSet |-> LowerLetters[CHOOSE i \in 1..26 : UpperLetters[i] = c]]

LowerChar(c) == IF c \in UpperSet THEN LowerTable[c] ELSE c

\* String.prototype.toLowerCase
toLowerCase(s) == [i \in 1..Len(s) |-> LowerChar(s[i])]

\* String.prototype.trim
trim(s) ==
  LET keep == {i \in 1..Len(s) : ~IsSpace(s[i])}
  IN  IF keep = {} THEN <<>>
      ELSE LET lo == CHOOSE i \in keep : \A j \in keep : i <= j
               hi == CHOOSE i \in keep : \A j \in keep : j <= i
           IN  SubSeq(s, lo, hi)

\* String.prototype.includes
includes(s, sub) ==
  \E i \in 0..(Len(s) - Len(sub)) : SubSeq(s, i + 1, i + Len(sub)) = sub

\* s.replace(/\s+/g, '_'): every run of white space becomes one underscore
replaceSpaces(s) ==
  LET keep == {i \in 1..Len(s) :
                 ~IsSpace(s[i]) \/ i = 1 \/ ~IsSpace(s[i - 1])}
      nth(k) == CHOOSE i \in keep : Cardinality({j \in keep : j < i}) = k - 1
  IN  [k \in 1..Cardinality(keep) |->
         IF IsSpace(s[nth(k)]) THEN "_" ELSE s[nth(k)]]

\* a || b on strings: the empty string is falsy
OrStr(a, b) == IF a # <<>> THEN a ELSE b

RECURSIVE DigitsValue(_, _)
DigitsValue(s, acc) ==
  IF s = <<>> \/ ~IsDigit(Head(s)) THEN acc
  ELSE DigitsValue(Tail(s), 10 * acc + DigitVal(Head(s)))

RECURSIVE SkipSpaces(_)
SkipSpaces(s) ==
  IF s # <<>> /\ IsSpace(Head(s)) THEN SkipSpaces(Tail(s)) ELSE s

\* parseFloat on strings without '.', exponent or 'Infinity': leading white
\* space is skipped, an optional sign and the longest run of digits are
\* read, anything after it is ignored; no digit at all gives NaN.
parseFloat(s) ==
  LET t    == SkipSpaces(s)
      neg  == t # <<>> /\ Head(t) = "-"
      sgn  == t # <<>> /\ Head(t) \in {"-", "+"}
      body == IF sgn THEN Tail(t) ELSE t
  IN  IF body = <<>> \/ ~IsDigit(Head(body))
      THEN [nan |-> TRUE, val |-> 0]
      ELSE [nan |-> FALSE,
            val |-> IF neg THEN 0 - DigitsValue(body, 0)
                    ELSE DigitsValue(body, 0)]

\* x || 0 on numbers: NaN and 0 are falsy
OrZero(x) == IF x.nan THEN 0 ELSE x.val

\* ------------------------------------------------------------------------
\* preprocess.js: categories
\* ------------------------------------------------------------------------
VALID_CATEGORIES ==
  << <<"V", "e", "g", "e", "t", "a", "b", "l", "e", "s">>,
     <<"F", "r", "u", "i", "t", "s">>,
     <<"S", "p", "i", "c", "e", "s">>,
     <<"C", "e", "r", "e", "a", "l", "s">>,
     <<"P", "u", "l", "s", "e", "s">>,
     <<"O", "i", "l", " ", "S", "e", "e", "d", "s">>,
     <<"O", "i", "l", "s", " ", "a", "n", "d", " ", "F", "a", "t", "s">>,
     <<"F", "i", "b", "r", "e", " ", "C", "r", "o", "p", "s">>,
     <<"F", "o", "r", "e", "s", "t", " ", "P", "r", "o", "d", "u", "c", "t", "s">>,
     <<"F", "l", "o", "w", "e", "r", "s">>,
     <<"D", "r", "y", " ", "F", "r", "u", "i", "t", "s">>,
     <<"B", "e", "v", "e", "r", "a", "g", "e", "s">>,
     <<"L", "i", "v", "e", " ", "S", "t", "o", "c", "k">>,
     <<"D", "r", "u", "g", " ", "a", "n", "d", " ", "N", "a", "r", "c", "o", "t", "i", "c", "s">>,
     <<"O", "t", "h", "e", "r">> >>

\* the result null of mapCategoryToValid and of Array.prototype.find
NoCategory == <<>>

\* VALID_CATEGORIES.find(cat => cat.toLowerCase() === lower): first match
LowerCategories ==
  [i \in 1..Len(VALID_CATEGORIES) |-> toLowerCase(VALID_CATEGORIES[i])]

FindCategory(lower) ==
  LET hits == {i \in 1..Len(VALID_CATEGORIES) : LowerCategories[i] = lower}
  IN  IF hits = {} THEN NoCategory
      ELSE VALID_CATEGORIES[CHOOSE i \in hits : \A j \in hits : i <= j]

mapCategoryToValid(csvGroup, cropName) ==
  IF csvGroup = <<>> THEN NoCategory
  ELSE
    LET normalizedGroup == trim(csvGroup)
        directMatch == FindCategory(toLowerCase(normalizedGroup))
        g == toLowerCase(normalizedGroup)
    IN  IF directMatch # NoCategory THEN directMatch
        ELSE IF g = <<"s", "p", "i", "c", "e", "s">> THEN VALID_CATEGORIES[3]
        ELSE IF g = <<"c", "e", "r", "e", "a", "l", "s">> THEN VALID_CATEGORIES[4]
        ELSE IF g = <<"p", "u", "l", "s", "e", "s">> THEN VALID_CATEGORIES[5]
        ELSE IF g = <<"o", "i", "l", " ", "s", "e", "e", "d", "s">>
                \/ g = <<"o", "i", "l", "s", "e", "e", "d", "s">>
             THEN VALID_CATEGORIES[6]
        ELSE IF g = <<"o", "i", "l", "s", " ", "a", "n", "d", " ", "f", "a", "t", "s">>
                \/ g = <<"o", "i", "l", " ", "a", "n", "d", " ", "f", "a", "t", "s">>
             THEN VALID_CATEGORIES[7]
        ELSE IF g = <<"f", "i", "b", "r", "e", " ", "c", "r", "o", "p", "s">>
                \/ g = <<"f", "i", "b", "e", "r", " ", "c", "r", "o", "p", "s">>
             THEN VALID_CATEGORIES[8]
        ELSE IF g = <<"f", "o", "r", "e", "s", "t", " ", "p", "r", "o", "d", "u", "c", "t", "s">>
             THEN VALID_CATEGORIES[9]
        ELSE IF g = <<"f", "l", "o", "w", "e", "r", "s">> THEN VALID_CATEGORIES[10]
        ELSE IF g = <<"d", "r", "y", " ", "f", "r", "u", "i", "t", "s">>
             THEN VALID_CATEGORIES[11]
        ELSE IF g = <<"b", "e", "v", "e", "r", "a", "g", "e", "s">>
             THEN VALID_CATEGORIES[12]
        ELSE IF includes(g, <<"l", "i", "v", "e", " ", "s", "t", "o", "c", "k">>)
                \/ includes(g, <<"l", "i", "v", "e", "s", "t", "o", "c", "k">>)
             THEN VALID_CATEGORIES[13]
        ELSE IF g = <<"d", "r", "u", "g", " ", "a", "n", "d", " ", "n", "a", "r", "c", "o", "t", "i", "c", "s">>
                \/ g = <<"d", "r", "u", "g", " ", "&", " ", "n", "a", "r", "c", "o", "t", "i", "c", "s">>
             THEN VALID_CATEGORIES[14]
        ELSE IF g = <<"o", "t", "h", "e", "r">> THEN VALID_CATEGORIES[15]
        ELSE NoCategory

\* ------------------------------------------------------------------------
\* JavaScript Map, insertion-ordered
\* ------------------------------------------------------------------------
MapHas(m, k) == \E i \in 1..Len(m) : m[i].key = k

MapIndex(m, k) == CHOOSE i \in 1..Len(m) : m[i].key = k

MapGet(m, k) == m[MapIndex(m, k)].val

\* Map.prototype.set: an existing key keeps its place
MapSet(m, k, v) ==
  IF MapHas(m, k)
  THEN [m EXCEPT ![MapIndex(m, k)] = [key |-> k, val |-> v]]
  ELSE Append(m, [key |-> k, val |-> v])

\* ------------------------------------------------------------------------
\* preprocess.js: processRow
\* ------------------------------------------------------------------------
\* the key without the lower-casing
cropKey_caseSensitive(cropName) == trim(cropName)

\* const cropKey = cropName.toLowerCase().trim()
cropKey(cropName) == trim(toLowerCase(cropName))

\* validCategory.toLowerCase().replace(/\s+/g, '_')
categorySlug(validCategory) == replaceSpaces(toLowerCase(validCategory))

\* the push without the guard
pushSuitability_always(regionalSuitability, suitabilityEntry) ==
  Append(regionalSuitability, suitabilityEntry)

\* the guard comparing the district alone
pushSuitability_byDistrict(regionalSuitability, suitabilityEntry) ==
  IF \E i \in 1..Len(regionalSuitability) :
        regionalSuitability[i].district = suitabilityEntry.district
  THEN regionalSuitability
  ELSE Append(regionalSuitability, suitabilityEntry)

\* crop.regionalSuitability.find(...) and the push it guards
pushSuitability(regionalSuitability, suitabilityEntry) ==
  IF \E i \in 1..Len(regionalSuitability) :
        /\ regionalSuitability[i].district = suitabilityEntry.district
        /\ regionalSuitability[i].suitability = suitabilityEntry.suitability
  THEN regionalSuitability
  ELSE Append(regionalSuitability, suitabilityEntry)

\* = in place of +=
addDemand_assign(total, demandQuantity) == demandQuantity

\* crop.demandQuantity += demandQuantity
addDemand(total, demandQuantity) == total + demandQuantity

\* the fields processRow reads from a row
rowState(row) == trim(OrStr(row.state, OrStr(row.StateName, <<>>)))

rowCategory(row) == trim(OrStr(row.category, OrStr(row.Group, <<>>)))

rowDistrict(row) == trim(OrStr(row.district, OrStr(row.DistrictName, <<>>)))

\* the row's own field first, the file name as the fallback
rowCropName_rowFirst(row, cropNameFromFile) ==
  OrStr(trim(OrStr(row.crop_name, OrStr(row.Variety, <<>>))), cropNameFromFile)

rowCropName(row, cropNameFromFile) ==
  OrStr(cropNameFromFile, trim(OrStr(row.crop_name, OrStr(row.Variety, <<>>))))

rowScientificName(row) ==
  trim(OrStr(row.scientific_name, OrStr(row.ScientificName, <<>>)))

rowDemandQuantity(row) ==
  OrZero(parseFloat(OrStr(row.demand_quantity,
                    OrStr(row.ArrivalsTonnes, OrStr(row.Arrivals, <<"0">>)))))

rowSuitability(row) ==
  OrStr(trim(OrStr(row.suitability,
                   OrStr(row.Suitability, <<"M", "e", "d", "i", "u", "m">>))),
        <<"M", "e", "d", "i", "u", "m">>)

\* the category a row is filed under, NoCategory when none matches
rowValidCategory(row, cropNameFromFile) ==
  LET category == rowCategory(row)
      directMatch == FindCategory(trim(toLowerCase(category)))
  IN  IF directMatch # NoCategory THEN directMatch
      ELSE mapCategoryToValid(category, rowCropName(row, cropNameFromFile))

\* the early returns with < 0 in place of <= 0
rowSkipped_zeroPasses(row, cropNameFromFile) ==
  \/ rowState(row) = <<>>
  \/ rowCategory(row) = <<>>
  \/ rowCropName(row, cropNameFromFile) = <<>>
  \/ rowDemandQuantity(row) < 0
  \/ rowValidCategory(row, cropNameFromFile) = NoCategory

\* the early returns of processRow
rowSkipped(row, cropNameFromFile) ==
  \/ rowState(row) = <<>>
  \/ rowCategory(row) = <<>>
  \/ rowCropName(row, cropNameFromFile) = <<>>
  \/ rowDemandQuantity(row) <= 0
  \/ rowValidCategory(row, cropNameFromFile) = NoCategory
  \/ ~\E i \in 1..Len(VALID_CATEGORIES) :
         VALID_CATEGORIES[i] = rowValidCategory(row, cropNameFromFile)

\* The merge of processRow, from the crop outwards.  rec is what processRow
\* has read in the row: [state, district, cropName, scientificName,
\* demandQuantity, validCategory, suitability].

\* the new stateData of stateDataMap.set(state, {...})
newStateData(state) ==
  [state |-> state,
   categoriesMap |-> <<>>,
   summary |-> [totalCategories |-> 0, totalCrops |-> 0, totalDemand |-> 0,
                unit |-> "tons per week", lastUpdated |-> 0]]

\* the new categoryData of categoriesMap.set(validCategory, {...}); crops is
\* not set yet, which reads as the empty list through `categoryData.crops || []`
newCategoryData(validCategory) ==
  [name |-> validCategory, count |-> 0, cropsMap |-> <<>>, crops |-> <<>>]

\* the new crop of cropsMap.set(cropKey, {...}) with the uuid cropId
newCrop(rec, cropId) ==
  [cropId |-> cropId,
   cropName |-> rec.cropName,
   scientificName |-> rec.scientificName,
   categoryId |-> [_id |-> categorySlug(rec.validCategory),
                   name |-> rec.validCategory],
   demandQuantity |-> 0,
   regionalSuitability |-> <<>>]

\* the suitability entry of the row
suitabilityEntry(rec) ==
  [geography |-> "India", district |-> rec.district, state |-> rec.state,
   suitability |-> rec.suitability]

\* the crop after the push of the suitability entry and the += of the demand
mergeIntoCrop(crop, rec) ==
  [crop EXCEPT
     !.regionalSuitability = pushSuitability(@, suitabilityEntry(rec)),
     !.demandQuantity = addDemand(@, rec.demandQuantity)]

\* if (!m.has(k)) m.set(k, fresh)
getOrCreate(m, k, fresh) == IF MapHas(m, k) THEN m ELSE MapSet(m, k, fresh)

\* m with the value at k replaced
putAt(m, k, v) == [m EXCEPT ![MapIndex(m, k)].val = v]

mergeInCrops(cropsMap, rec) ==
  putAt(cropsMap, cropKey(rec.cropName),
        mergeIntoCrop(MapGet(cropsMap, cropKey(rec.cropName)), rec))

mergeInCategory(categoryData, rec, cropId) ==
  [categoryData EXCEPT
     !.cropsMap =
        mergeInCrops(getOrCreate(@, cropKey(rec.cropName), newCrop(rec, cropId)),
                     rec)]

mergeInCategories(categoriesMap, rec, cropId) ==
  putAt(categoriesMap, rec.validCategory,
        mergeInCategory(MapGet(categoriesMap, rec.validCategory), rec, cropId))

mergeInState(stateData, rec, cropId) ==
  [stateData EXCEPT
     !.categoriesMap =
        mergeInCategories(
          getOrCreate(@, rec.validCategory, newCategoryData(rec.validCategory)),
          rec, cropId)]

mergeInStates(map, rec, cropId) ==
  putAt(map, rec.state, mergeInState(MapGet(map, rec.state), rec, cropId))

\* whether the row's crop is not yet in the cropsMap of its state and category
isNewCrop(map, rec) ==
  ~( /\ MapHas(map, rec.state)
     /\ MapHas(MapGet(map, rec.state).categoriesMap, rec.validCategory)
     /\ MapHas(MapGet(MapGet(map, rec.state).categoriesMap,
                      rec.validCategory).cropsMap,
               cropKey(rec.cropName)) )

mergeRow(agg, rec) ==
  [map |-> mergeInStates(getOrCreate(agg.map, rec.state, newStateData(rec.state)),
                         rec, agg.ids + 1),
   ids |-> IF isNewCrop(agg.map, rec) THEN agg.ids + 1 ELSE agg.ids]

\* processRow on the aggregation state agg = [map: stateDataMap,
\* ids: number of uuids minted so far]; uuidv4() is the next unused number
processRow(agg, row, cropNameFromFile) ==
  IF rowSkipped(row, cropNameFromFile) THEN agg
  ELSE mergeRow(agg,
         [state |-> rowState(row),
          district |-> rowDistrict(row),
          cropName |-> rowCropName(row, cropNameFromFile),
          scientificName |-> rowScientificName(row),
          demandQuantity |-> rowDemandQuantity(row),
          validCategory |-> rowValidCategory(row, cropNameFromFile),
          suitability |-> rowSuitability(row)])

\* ------------------------------------------------------------------------
\* preprocess.js: finalizeData
\* ------------------------------------------------------------------------
\* the array a cropsMap.forEach fills
MapValues(m) == [i \in 1..Len(m) |-> m[i].val]

RECURSIVE SumDemand(_)
SumDemand(crops) ==
  IF crops = <<>> THEN 0
  ELSE Head(crops).demandQuantity + SumDemand(Tail(crops))

RECURSIVE SumSeq(_)
SumSeq(xs) == IF xs = <<>> THEN 0 ELSE Head(xs) + SumSeq(Tail(xs))

\* the object that VALID_CATEGORIES.forEach pushes for categoryName
finalCategory(stateData, categoryName) ==
  IF ~MapHas(stateData.categoriesMap, categoryName)
  THEN [name |-> categoryName, count |-> 0, crops |-> <<>>]
  ELSE LET categoryData == MapGet(stateData.categoriesMap, categoryName)
           crops == MapValues(categoryData.cropsMap)
       IN  [name |-> categoryData.name, count |-> Len(crops), crops |-> crops]

\* only the categories that received a row
finalCategories_present(stateData) ==
  LET all == [c \in 1..Len(VALID_CATEGORIES) |->
                finalCategory(stateData, VALID_CATEGORIES[c])]
      HasRows(cat) == MapHas(stateData.categoriesMap, cat.name)
  IN  SelectSeq(all, HasRows)

finalCategories(stateData) ==
  [c \in 1..Len(VALID_CATEGORIES) |->
     finalCategory(stateData, VALID_CATEGORIES[c])]

\* the summary with totalCrops raised by one per category that has rows
finalSummary_perCategory(stateData, now) ==
  LET present == {c \in 1..Len(VALID_CATEGORIES) :
                    MapHas(stateData.categoriesMap, VALID_CATEGORIES[c])}
      cats == finalCategories(stateData)
  IN  [totalCategories |-> Len(VALID_CATEGORIES),
       totalCrops |-> Cardinality(present),
       totalDemand |-> SumSeq([c \in 1..Len(cats) |->
                        IF c \in present THEN SumDemand(cats[c].crops) ELSE 0]),
       unit |-> stateData.summary.unit,
       lastUpdated |-> now]

\* the summary of a state after the loop; now is the reading of new Date()
\* taken for this state
finalSummary(stateData, now) ==
  LET present == {c \in 1..Len(VALID_CATEGORIES) :
                    MapHas(stateData.categoriesMap, VALID_CATEGORIES[c])}
      cats == finalCategories(stateData)
  IN  [totalCategories |-> Len(VALID_CATEGORIES),
       totalCrops |-> SumSeq([c \in 1..Len(cats) |->
                        IF c \in present THEN Len(cats[c].crops) ELSE 0]),
       totalDemand |-> SumSeq([c \in 1..Len(cats) |->
                        IF c \in present THEN SumDemand(cats[c].crops) ELSE 0]),
       unit |-> stateData.summary.unit,
       lastUpdated |-> now]

\* finalOutput, given the clock readings stamps[i] taken for the i-th state
finalizeData(map, stamps) ==
  [i \in 1..Len(map) |->
     [state |-> map[i].val.state,
      categories |-> finalCategories(map[i].val),
      summary |-> finalSummary(map[i].val, stamps[i])]]

\* stateDataMap after finalizeData: count and crops of the categories that
\* exist and the summary of every state are written in place
finalizedMap(map, stamps) ==
  [i \in 1..Len(map) |->
     LET cats == map[i].val.categoriesMap
     IN  [key |-> map[i].key,
          val |-> [map[i].val EXCEPT
            !.categoriesMap =
              [j \in 1..Len(cats) |->
                 [key |-> cats[j].key,
                  val |-> [cats[j].val EXCEPT
                             !.count = Len(cats[j].val.cropsMap),
                             !.crops = MapValues(cats[j].val.cropsMap)]]],
            !.summary = finalSummary(map[i].val, stamps[i])]]]

\* ------------------------------------------------------------------------
\* Inputs: CSV files and rows
\* ------------------------------------------------------------------------
sKarnataka == <<"K", "a", "r", "n", "a", "t", "a", "k", "a">>
sKarnatakaLower == <<"k", "a", "r", "n", "a", "t", "a", "k", "a">>
sTelangana == <<"T", "e", "l", "a", "n", "g", "a", "n", "a">>
sVegetables == <<"V", "e", "g", "e", "t", "a", "b", "l", "e", "s">>
sVegetablesLower == <<"v", "e", "g", "e", "t", "a", "b", "l", "e", "s">>
sOilseeds == <<"O", "i", "l", "s", "e", "e", "d", "s">>
sLiveStockPoultry ==
  <<"L", "i", "v", "e", " ", "S", "t", "o", "c", "k", ",", "P", "o", "u", "l", "t", "r", "y">>
sDairy == <<"D", "a", "i", "r", "y">>
sTomato == <<"T", "o", "m", "a", "t", "o">>
sTomatoLower == <<"t", "o", "m", "a", "t", "o">>
sOnion == <<"O", "n", "i", "o", "n">>
sSolanum == <<"S", "o", "l", "a", "n", "u", "m">>
sLycopersicon == <<"L", "y", "c", "o", "p", "e", "r", "s", "i", "c", "o", "n">>
sBangalore == <<"B", "a", "n", "g", "a", "l", "o", "r", "e">>
sMysore == <<"M", "y", "s", "o", "r", "e">>
sHyderabad == <<"H", "y", "d", "e", "r", "a", "b", "a", "d">>
sHyderabadLower == <<"h", "y", "d", "e", "r", "a", "b", "a", "d">>
sHigh == <<"H", "i", "g", "h">>
sMedium == <<"M", "e", "d", "i", "u", "m">>
sLow == <<"L", "o", "w">>

\* a row of csv-parser with none of the columns the code reads
EmptyRow ==
  [state |-> <<>>, StateName |-> <<>>, category |-> <<>>, Group |-> <<>>,
   district |-> <<>>, DistrictName |-> <<>>, crop_name |-> <<>>,
   Variety |-> <<>>, scientific_name |-> <<>>, ScientificName |-> <<>>,
   demand_quantity |-> <<>>, ArrivalsTonnes |-> <<>>, Arrivals |-> <<>>,
   suitability |-> <<>>, Suitability |-> <<>>]

\* a row of a file with the columns state, category, crop_name, ...
Row(state, category, crop, sci, district, qty, suit) ==
  [EmptyRow EXCEPT !.state = state, !.category = category,
     !.crop_name = crop, !.scientific_name = sci, !.district = district,
     !.demand_quantity = qty, !.suitability = suit]

\* a row of a file with the columns State Name, Group, Variety, ...
MandiRow(state, group, variety, district, arrivals) ==
  [EmptyRow EXCEPT !.StateName = state, !.Group = group,
     !.Variety = variety, !.DistrictName = district,
     !.ArrivalsTonnes = arrivals]

\* rows that processRow merges (in a file that names a crop, or by their
\* own crop name)
GoodRows ==
  << Row(sKarnataka, sVegetables, sTomato, sSolanum, sBangalore,
        <<"1", "0", "0">>, sHigh),
    Row(sKarnataka, sVegetables, sTomato, <<>>, sMysore,
        <<"5", "0">>, sMedium),
    Row(sKarnataka, sVegetablesLower, <<" ">> \o sTomatoLower, sLycopersicon,
        sBangalore, <<" ", "7">>, sLow),
    Row(sKarnatakaLower, sVegetables, sTomato, sSolanum, sBangalore,
        <<"5", "0">>, sHigh),
    Row(sTelangana, sVegetables, sTomato, <<>>, sHyderabad,
        <<"+", "3">>, <<>>),
    Row(sKarnataka, sOilseeds, sOnion, <<>>, sHyderabadLower,
        <<"1", "2", "a", "b", "c">>, sHigh),
    MandiRow(sTelangana, sLiveStockPoultry, sOnion, <<>>, <<"5", "0">>) >>

\* rows that processRow skips; the last one only when its file names no crop
BadRows ==
  << [Row(<<" ", " ">>, sVegetables, sTomato, <<>>, sBangalore,
         <<"5", "0">>, sHigh) EXCEPT !.StateName = sKarnataka],
    Row(sKarnataka, <<>>, sTomato, <<>>, sBangalore, <<"5", "0">>, sHigh),
    Row(sKarnataka, sDairy, sTomato, <<>>, sBangalore, <<"5", "0">>, sHigh),
    Row(sKarnataka, sVegetables, sTomato, <<>>, sBangalore, <<"0">>, sHigh),
    Row(sKarnataka, sVegetables, sTomato, <<>>, sBangalore, <<"-", "5">>, sHigh),
    Row(sKarnataka, sVegetables, sTomato, <<>>, sBangalore,
        <<"a", "b", "c">>, sHigh),
    [Row(sKarnataka, sVegetables, <<>>, <<>>, sBangalore,
         <<"5", "0">>, sHigh) EXCEPT !.Variety = <<" ">>] >>

\* the rows the streams can deliver; a row event names one by its position
sExcellent == <<"E", "x", "c", "e", "l", "l", "e", "n", "t">>

\* rows with a suitability cell that is free text or blank
OddRows ==
  << Row(sKarnataka, sVegetables, sTomato, <<>>, sMysore, <<"5">>, sExcellent),
     Row(sKarnataka, sVegetables, sTomato, <<>>, sMysore, <<"5">>, <<" ">>) >>

Rows == GoodRows \o BadRows \o OddRows

RowIds == 1..Len(Rows)

\* the CSV files of the data folder, by path.basename(filePath, '.csv'):
\* "Tomato.csv" and " .csv"
FileBaseNames == << sTomato, <<" ">> >>

Files == 1..Len(FileBaseNames)

getCropNameFromFile(f) == trim(FileBaseNames[f])

\* ------------------------------------------------------------------------
\* State
\* ------------------------------------------------------------------------
VARIABLES
  stateDataMap,   \* preprocess.js: the global Map state -> stateData
  uuidCount,      \* preprocess.js: number of uuids uuidv4() has returned
  streams,        \* preprocess.js: per file, "open", "ended" or "error"
  pc,             \* preprocess.js: main is "awaiting", "done" or "exited"
  demandFile,     \* demand.json: [exists, parses, content]
  delivered,      \* history: bag of the [file, row] events handled so far,
                  \*   row being the position of the row in Rows
  demandData,     \* server.js: [null, data]
  serving,        \* server.js: start-up has passed loadDemandData
  request,        \* server.js: the last request handled
  response        \* server.js: the answer to it

vars ==
  <<stateDataMap, uuidCount, streams, pc, demandFile, delivered,
    demandData, serving, request, response>>

serverVars == <<demandData, serving, request, response>>

NoRequest ==
  [route |-> "none", cityName |-> <<>>, state |-> <<>>, category |-> <<>>]

NoResponse == [status |-> 0, body |-> <<>>]

\* ------------------------------------------------------------------------
\* preprocess.js: main and the stream handlers
\* ------------------------------------------------------------------------
Init ==
  /\ stateDataMap = <<>>
  /\ uuidCount = 0
  /\ streams = [f \in Files |-> "open"]
  /\ pc = "awaiting"
  /\ demandFile = [exists |-> FALSE, parses |-> FALSE, content |-> <<>>]
  /\ delivered = EmptyBag
  /\ demandData = [null |-> TRUE, data |-> <<>>]
  /\ serving = FALSE
  /\ request = NoRequest
  /\ response = NoResponse

\* a rejected promise ends main through process.exit(1) before the event
\* loop hands out another stream event
Running == pc = "awaiting" /\ \A f \in Files : streams[f] # "error"

\* .on('data', row => processRow(row, cropNameFromFile))
OnData(f, r) ==
  /\ Running
  /\ streams[f] = "open"
  /\ BagCardinality(delivered) < MaxRows
  /\ LET agg == processRow([map |-> stateDataMap, ids |-> uuidCount],
                           Rows[r], getCropNameFromFile(f))
     IN  /\ stateDataMap' = agg.map
         /\ uuidCount' = agg.ids
  /\ delivered' = delivered (+) SetToBag({[file |-> f, row |-> r]})
  /\ UNCHANGED <<streams, pc, demandFile, serverVars>>

\* .on('end', () => resolve())
OnEnd(f) ==
  /\ Running
  /\ streams[f] = "open"
  /\ streams' = [streams EXCEPT ![f] = "ended"]
  /\ UNCHANGED <<stateDataMap, uuidCount, pc, demandFile, delivered, serverVars>>

\* .on('error', error => reject(error))
OnError(f) ==
  /\ Running
  /\ streams[f] = "open"
  /\ streams' = [streams EXCEPT ![f] = "error"]
  /\ UNCHANGED <<stateDataMap, uuidCount, pc, demandFile, delivered, serverVars>>

\* the clock readings finalizeData can take for n states, one per state
Stamps(n) ==
  {st \in [1..n -> 1..(1 + MaxTicks)] :
     /\ n > 0 => st[1] = 1
     /\ \A i \in 1..n, j \in 1..n : i <= j => st[i] <= st[j]}

\* main going on as soon as one file has ended
MainFinish_early ==
  /\ pc = "awaiting"
  /\ \E f \in Files : streams[f] = "ended"
  /\ \A f \in Files : streams[f] # "error"
  /\ \E stamps \in Stamps(Len(stateDataMap)) :
       /\ demandFile' = [exists |-> TRUE, parses |-> TRUE,
                         content |-> finalizeData(stateDataMap, stamps)]
       /\ stateDataMap' = finalizedMap(stateDataMap, stamps)
  /\ pc' = "done"
  /\ UNCHANGED <<uuidCount, streams, delivered, serverVars>>

\* main after await Promise.all(filePromises): finalizeData, writeFileSync
MainFinish ==
  /\ pc = "awaiting"
  /\ \A f \in Files : streams[f] = "ended"
  /\ \E stamps \in Stamps(Len(stateDataMap)) :
       /\ demandFile' = [exists |-> TRUE, parses |-> TRUE,
                         content |-> finalizeData(stateDataMap, stamps)]
       /\ stateDataMap' = finalizedMap(stateDataMap, stamps)
  /\ pc' = "done"
  /\ UNCHANGED <<uuidCount, streams, delivered, serverVars>>

\* main in the catch of await Promise.all: process.exit(1)
MainExit ==
  /\ pc = "awaiting"
  /\ \E f \in Files : streams[f] = "error"
  /\ pc' = "exited"
  /\ UNCHANGED <<stateDataMap, uuidCount, streams, demandFile, delivered,
                 serverVars>>

Next ==
  \/ \E f \in Files, r \in RowIds : OnData(f, r)
  \/ \E f \in Files : OnEnd(f)
  \/ \E f \in Files : OnError(f)
  \/ MainFinish
  \/ MainExit

Spec == Init /\ [][Next]_vars

\* ------------------------------------------------------------------------
\* server.js: GET /api/demand/city/:cityName
\* ------------------------------------------------------------------------
\* the filter left out
passesFilter_ignored(filter, name) == TRUE

\* stateFilter && stateData.state.toLowerCase() !== stateFilter.toLowerCase()
\* negated; also the category filter
passesFilter(filter, name) ==
  filter = <<>> \/ toLowerCase(name) = toLowerCase(filter)

\* the district compared with ===
regionMatches_caseSensitive(region, cityName, stateName) ==
  /\ region.district = cityName
  /\ toLowerCase(region.state) = toLowerCase(stateName)

\* the predicate of regionalSuitability.some and .find
regionMatches(region, cityName, stateName) ==
  /\ toLowerCase(region.district) = toLowerCase(cityName)
  /\ toLowerCase(region.state) = toLowerCase(stateName)

\* category.crops.filter(crop => crop.regionalSuitability.some(...))
matchingCrops(crops, cityName, stateName) ==
  LET Matches(crop) ==
        \E i \in 1..Len(crop.regionalSuitability) :
          regionMatches(crop.regionalSuitability[i], cityName, stateName)
  IN  SelectSeq(crops, Matches)

\* all regions of the crop in place of the matching one
cityRegionList_all(regionalSuitability, cityName, stateName) ==
  regionalSuitability

\* cityRegion ? [cityRegion] : [] for the first matching entry
cityRegionList(regionalSuitability, cityName, stateName) ==
  LET Matches(region) == regionMatches(region, cityName, stateName)
  IN  SubSeq(SelectSeq(regionalSuitability, Matches), 1, 1)

\* the object matchingCrops.map returns for a crop
cityCrop(crop, cityName, stateName) ==
  [cropId |-> crop.cropId,
   cropName |-> crop.cropName,
   scientificName |-> crop.scientificName,
   categoryId |-> crop.categoryId,
   demandQuantity |-> crop.demandQuantity,
   regionalSuitability |->
     cityRegionList(crop.regionalSuitability, cityName, stateName)]

\* the object pushed to stateResult.categories for the matching crops
cityCategory(name, matching, cityName, stateName) ==
  [name |-> name,
   count |-> Len(matching),
   crops |-> [k \in 1..Len(matching) |->
                cityCrop(matching[k], cityName, stateName)]]

\* stateResult.categories: the categories that pass the filter and have
\* matching crops, in the order of the snapshot
cityCategories(categories, stateName, cityName, categoryFilter) ==
  LET Passes(category) == passesFilter(categoryFilter, category.name)
      NonEmpty(category) == category.count > 0
      kept == SelectSeq(categories, Passes)
  IN  SelectSeq([c \in 1..Len(kept) |->
                   cityCategory(kept[c].name,
                                matchingCrops(kept[c].crops, cityName, stateName),
                                cityName, stateName)],
                NonEmpty)

\* stateResult with its summary
cityState(stateName, categories) ==
  [state |-> stateName,
   categories |-> categories,
   summary |->
     [totalCategories |-> Len(categories),
      totalCrops |-> SumSeq([c \in 1..Len(categories) |-> categories[c].count]),
      totalDemand |->
        SumSeq([c \in 1..Len(categories) |-> SumDemand(categories[c].crops)]),
      unit |-> "tons per week"]]

\* result.data: the states that pass the filter and keep a category
cityData(data, cityName, stateFilter, categoryFilter) ==
  LET Passes(stateData) == passesFilter(stateFilter, stateData.state)
      NonEmpty(stateResult) == Len(stateResult.categories) > 0
      kept == SelectSeq(data, Passes)
  IN  SelectSeq([i \in 1..Len(kept) |->
                   cityState(kept[i].state,
                             cityCategories(kept[i].categories, kept[i].state,
                                            cityName, categoryFilter))],
                NonEmpty)

\* the overall summary taken from the first state only
cityResult_firstState(cityName, stateFilter, categoryFilter, data) ==
  [city |-> cityName,
   filters |-> [state |-> OrStr(stateFilter, <<"a", "l", "l">>),
                category |-> OrStr(categoryFilter, <<"a", "l", "l">>)],
   note |-> "demandQuantity represents the total demand for this crop across all districts in the state, not just this city",
   data |-> data,
   summary |->
     [totalStates |-> Len(data),
      totalCategories |->
        SumSeq([i \in 1..Len(data) |->
                  IF i = 1 THEN data[i].summary.totalCategories ELSE 0]),
      totalCrops |->
        SumSeq([i \in 1..Len(data) |->
                  IF i = 1 THEN data[i].summary.totalCrops ELSE 0]),
      totalDemand |->
        SumSeq([i \in 1..Len(data) |->
                  IF i = 1 THEN data[i].summary.totalDemand ELSE 0]),
      unit |-> "tons per week"]]

\* result with its overall summary
cityResult(cityName, stateFilter, categoryFilter, data) ==
  [city |-> cityName,
   filters |-> [state |-> OrStr(stateFilter, <<"a", "l", "l">>),
                category |-> OrStr(categoryFilter, <<"a", "l", "l">>)],
   note |-> "demandQuantity represents the total demand for this crop across all districts in the state, not just this city",
   data |-> data,
   summary |->
     [totalStates |-> Len(data),
      totalCategories |->
        SumSeq([i \in 1..Len(data) |-> data[i].summary.totalCategories]),
      totalCrops |-> SumSeq([i \in 1..Len(data) |-> data[i].summary.totalCrops]),
      totalDemand |-> SumSeq([i \in 1..Len(data) |-> data[i].summary.totalDemand]),
      unit |-> "tons per week"]]

\* an empty success payload in place of the 404
cityAnswer_alwaysOk(result) == [status |-> 200, body |-> result]

\* if (result.data.length === 0) 404, else res.json(result)
cityAnswer(result) ==
  IF Len(result.data) = 0
  THEN [status |-> 404,
        body |-> [error |-> "No data found",
                  message |-> <<"No crop demand data found for city/district: ",
                                result.city>>,
                  city |-> result.city,
                  suggestions |-> "Try checking the spelling or use a different city name"]]
  ELSE [status |-> 200, body |-> result]

\* the handler on the trimmed parameters
cityLookup(dd, cityName, stateFilter, categoryFilter) ==
  IF cityName = <<>>
  THEN [status |-> 400,
        body |-> [error |-> "City name is required",
                  message |-> "Please provide a valid city/district name"]]
  ELSE IF dd.null \/ Len(dd.data) = 0
  THEN [status |-> 503,
        body |-> [error |-> "Data not available",
                  message |-> "Demand data has not been loaded. Please run preprocess.js first."]]
  ELSE cityAnswer(cityResult(cityName, stateFilter, categoryFilter,
                             cityData(dd.data, cityName, stateFilter,
                                      categoryFilter)))

\* the crop with its region list cut down to the entry of the city
cityCropAfter_inPlace(crop, cityName, stateName) ==
  [crop EXCEPT
     !.regionalSuitability = cityRegionList(@, cityName, stateName)]

\* the snapshot crop after the callback of matchingCrops.map: the callback
\* reads the crop and returns a new object with a new one-entry array
cityCropAfter(crop, cityName, stateName) == crop

\* the predicate of category.crops.filter
cropMatches(crop, cityName, stateName) ==
  \E i \in 1..Len(crop.regionalSuitability) :
    regionMatches(crop.regionalSuitability[i], cityName, stateName)

\* the snapshot category after the callback of stateData.categories.forEach
cityCategoryAfter(category, stateName, cityName, categoryFilter) ==
  IF ~passesFilter(categoryFilter, category.name) THEN category
  ELSE [category EXCEPT
          !.crops = [k \in 1..Len(@) |->
                       IF cropMatches(@[k], cityName, stateName)
                       THEN cityCropAfter(@[k], cityName, stateName)
                       ELSE @[k]]]

\* the snapshot state after the callback of demandData.forEach
cityStateAfter(stateData, cityName, stateFilter, categoryFilter) ==
  IF ~passesFilter(stateFilter, stateData.state) THEN stateData
  ELSE [stateData EXCEPT
          !.categories = [c \in 1..Len(@) |->
                            cityCategoryAfter(@[c], stateData.state, cityName,
                                              categoryFilter)]]

\* demandData after the handler on the trimmed parameters
cityLookupAfter(dd, cityName, stateFilter, categoryFilter) ==
  IF cityName = <<>> \/ dd.null \/ Len(dd.data) = 0 THEN dd
  ELSE [dd EXCEPT
          !.data = [i \in 1..Len(@) |->
                      cityStateAfter(@[i], cityName, stateFilter,
                                     categoryFilter)]]

\* demandData after the handler
cityHandlerAfter(dd, cityParam, stateQuery, categoryQuery) ==
  cityLookupAfter(dd, trim(cityParam), trim(stateQuery), trim(categoryQuery))

\* the handler: cityParam is req.params.cityName, stateQuery and
\* categoryQuery are req.query.state and req.query.category, empty when absent
cityHandler(dd, cityParam, stateQuery, categoryQuery) ==
  cityLookup(dd, trim(cityParam), trim(stateQuery), trim(categoryQuery))

\* ------------------------------------------------------------------------
\* server.js: the walk over the snapshot shared by the listing routes
\* ------------------------------------------------------------------------
\* the 503 answer of every route
unavailable ==
  [status |-> 503,
   body |-> [error |-> "Data not available",
             message |-> "Demand data has not been loaded. Please run preprocess.js first."]]

RECURSIVE Flatten(_)
Flatten(ss) == IF ss = <<>> THEN <<>> ELSE Head(ss) \o Flatten(Tail(ss))

\* crop.regionalSuitability.forEach(region => ...)
cropVisits(categoryName, crop) ==
  [k \in 1..Len(crop.regionalSuitability) |->
     [category |-> categoryName, crop |-> crop,
      region |-> crop.regionalSuitability[k]]]

\* category.crops.forEach(crop => ...)
categoryVisits(category) ==
  Flatten([j \in 1..Len(category.crops) |->
             cropVisits(category.name, category.crops[j])])

\* stateData.categories.forEach(category => ...)
stateVisits(stateData) ==
  Flatten([c \in 1..Len(stateData.categories) |->
             categoryVisits(stateData.categories[c])])

\* demandData.forEach(stateData => ...): the region entries in the order
\* the nested forEach calls reach them, each with its crop and category name
regionVisits(data) ==
  Flatten([i \in 1..Len(data) |-> stateVisits(data[i])])

\* ------------------------------------------------------------------------
\* JavaScript string orders
\* ------------------------------------------------------------------------
\* the characters of the model in the order of their UTF-16 code units
CodeUnitOrder ==
  <<" ", "+", ",", "-">> \o Digits \o UpperLetters \o <<"_">> \o LowerLetters

CodeUnit ==
  [c \in {CodeUnitOrder[i] : i \in 1..Len(CodeUnitOrder)} |->
     CHOOSE i \in 1..Len(CodeUnitOrder) : CodeUnitOrder[i] = c] @@ <<>>

\* a < b on sequences of numbers, as a dictionary orders them
lexLess(a, b) ==
  LET differ == {i \in 1..Len(a) : i <= Len(b) /\ a[i] # b[i]}
  IN  IF differ = {}
      THEN Len(a) < Len(b)
      ELSE LET i == CHOOSE i \in differ : \A j \in differ : i <= j
           IN  a[i] < b[i]

\* the default comparison of Array.prototype.sort: by UTF-16 code units
codeUnitLess(a, b) ==
  lexLess([i \in 1..Len(a) |-> CodeUnit[a[i]]],
          [i \in 1..Len(b) |-> CodeUnit[b[i]]])

\* the characters of the model in the order of their primary collation
\* weight: white space, punctuation, symbols, digits, letters
CollationOrder == <<" ", "_", "-", ",", "+">> \o Digits \o LowerLetters

CollationWeight ==
  [c \in {CollationOrder[i] : i \in 1..Len(CollationOrder)} |->
     CHOOSE i \in 1..Len(CollationOrder) : CollationOrder[i] = c] @@ <<>>

\* a.localeCompare(b) < 0 in the default collation: letters are compared
\* without their case first; strings equal up to case are ordered by the
\* first place where they differ, the lower-case letter first
localeLess(a, b) ==
  IF toLowerCase(a) # toLowerCase(b)
  THEN lexLess([i \in 1..Len(a) |-> CollationWeight[LowerChar(a[i])]],
               [i \in 1..Len(b) |-> CollationWeight[LowerChar(b[i])]])
  ELSE /\ a # b
       /\ LET i == CHOOSE i \in 1..Len(a) :
                     a[i] # b[i] /\ \A j \in 1..(i - 1) : a[j] = b[j]
          IN  a[i] = LowerChar(a[i])

\* ------------------------------------------------------------------------
\* server.js: GET /api/demand/cities
\* ------------------------------------------------------------------------
\* citiesSet.add(region.district) for the non-empty districts, in the order
\* of the walk: a Set keeps the first insertion of a value
\* an array in place of the Set: every region entry adds its district
citiesSet_array(visits, acc) ==
  acc \o [k \in 1..Len(visits) |-> visits[k].region.district]

RECURSIVE citiesSet(_, _)
citiesSet(visits, acc) ==
  IF visits = <<>> THEN acc
  ELSE citiesSet(Tail(visits),
                 IF Head(visits).region.district = <<>>
                    \/ \E i \in 1..Len(acc) : acc[i] = Head(visits).region.district
                 THEN acc
                 ELSE Append(acc, Head(visits).region.district))

\* the handler without its check of demandData
citiesHandler_unguarded(dd) ==
  [status |-> 200,
   body |-> [totalCities |-> Len(citiesSet(regionVisits(dd.data), <<>>)),
             cities |-> SortSeq(citiesSet(regionVisits(dd.data), <<>>),
                                codeUnitLess)]]

\* the handler
citiesHandler(dd) ==
  IF dd.null \/ Len(dd.data) = 0
  THEN unavailable
  ELSE [status |-> 200,
        body |-> [totalCities |-> Len(citiesSet(regionVisits(dd.data), <<>>)),
                  cities |-> SortSeq(citiesSet(regionVisits(dd.data), <<>>),
                                     codeUnitLess)]]

\* ------------------------------------------------------------------------
\* server.js: GET /api/demand/all-cities
\* ------------------------------------------------------------------------
\* the value of citiesMap.set(cityName, {...})
newCityEntry(cityName) == [city |-> cityName, states |-> <<>>]

\* the value of cityData.states.set(stateName, {...})
newCityState(stateName) == [state |-> stateName, categories |-> <<>>]

\* the value of stateDataForCity.categories.set(category.name, {...})
newCityCategory(name) == [name |-> name, crops |-> <<>>]

\* every demand passes
hasDemand_any(crop) == TRUE

\* crop.demandQuantity > 0
hasDemand(crop) == crop.demandQuantity > 0

\* the crop is never found
hasCrop_never(crops, cropId) == FALSE

\* categoryData.crops.find(c => c.cropId === crop.cropId) finds a crop
hasCrop(crops, cropId) == \E i \in 1..Len(crops) : crops[i].cropId = cropId

\* the place of the crop that find returns: the first one
cropIndex(crops, cropId) ==
  CHOOSE i \in 1..Len(crops) :
    crops[i].cropId = cropId /\ \A j \in 1..(i - 1) : crops[j].cropId # cropId

\* the object pushed for a crop that is new to the city, state and category
indexCrop(crop, region) ==
  [cropId |-> crop.cropId,
   cropName |-> crop.cropName,
   scientificName |-> crop.scientificName,
   categoryId |-> crop.categoryId,
   demandQuantity |-> crop.demandQuantity,
   regionalSuitability |-> <<region>>]

\* existingCrop.regionalSuitability.some(r => r.district === region.district
\* && r.state === region.state)
regionExists(regionalSuitability, region) ==
  \E k \in 1..Len(regionalSuitability) :
    /\ regionalSuitability[k].district = region.district
    /\ regionalSuitability[k].state = region.state

\* if (!regionExists) existingCrop.regionalSuitability.push(region)
addRegion(existingCrop, region) ==
  IF regionExists(existingCrop.regionalSuitability, region)
  THEN existingCrop
  ELSE [existingCrop EXCEPT !.regionalSuitability = Append(@, region)]

\* categoryData.crops after the visit v of a region entry
visitCrops(crops, v) ==
  IF ~hasDemand(v.crop) THEN crops
  ELSE IF ~hasCrop(crops, v.crop.cropId)
  THEN Append(crops, indexCrop(v.crop, v.region))
  ELSE [crops EXCEPT ![cropIndex(crops, v.crop.cropId)] = addRegion(@, v.region)]

visitCityCategory(categoryData, v) ==
  [categoryData EXCEPT !.crops = visitCrops(@, v)]

visitCityCategories(categories, v) ==
  putAt(categories, v.category,
        visitCityCategory(MapGet(categories, v.category), v))

visitCityState(stateDataForCity, v) ==
  [stateDataForCity EXCEPT
     !.categories =
        visitCityCategories(getOrCreate(@, v.category, newCityCategory(v.category)),
                            v)]

visitCityStates(states, v) ==
  putAt(states, v.region.state,
        visitCityState(MapGet(states, v.region.state), v))

visitCity(cityEntry, v) ==
  [cityEntry EXCEPT
     !.states =
        visitCityStates(getOrCreate(@, v.region.state,
                                    newCityState(v.region.state)),
                        v)]

visitCities(citiesMap, v) ==
  putAt(citiesMap, v.region.district,
        visitCity(MapGet(citiesMap, v.region.district), v))

\* the body of crop.regionalSuitability.forEach for the region entry v
visitRegion(citiesMap, v) ==
  IF v.region.district = <<>> THEN citiesMap
  ELSE visitCities(getOrCreate(citiesMap, v.region.district,
                               newCityEntry(v.region.district)),
                   v)

\* citiesMap after the walk over the snapshot
RECURSIVE buildCitiesMap(_, _)
buildCitiesMap(visits, citiesMap) ==
  IF visits = <<>> THEN citiesMap
  ELSE buildCitiesMap(Tail(visits), visitRegion(citiesMap, Head(visits)))

\* categorySummary for the crops that pass the second demand filter
indexCategory(categoryData) ==
  [name |-> categoryData.name,
   count |-> Len(SelectSeq(categoryData.crops, hasDemand)),
   totalDemand |-> SumDemand(SelectSeq(categoryData.crops, hasDemand)),
   crops |-> SelectSeq(categoryData.crops, hasDemand)]

\* stateEntry.categories: the categories with validCrops.length > 0
indexCategories(categories) ==
  LET NonEmpty(categorySummary) == categorySummary.count > 0
  IN  SelectSeq([c \in 1..Len(categories) |-> indexCategory(categories[c].val)],
                NonEmpty)

\* stateEntry with its summary
indexState(stateName, categories) ==
  [state |-> stateName,
   categories |-> categories,
   summary |->
     [totalCategories |-> Len(categories),
      totalCrops |-> SumSeq([c \in 1..Len(categories) |-> categories[c].count]),
      totalDemand |->
        SumSeq([c \in 1..Len(categories) |-> categories[c].totalDemand]),
      unit |-> "tons per week"]]

\* cityEntry.states: the states with categories.length > 0
indexStates(states) ==
  LET NonEmpty(stateEntry) == Len(stateEntry.categories) > 0
  IN  SelectSeq([i \in 1..Len(states) |->
                   indexState(states[i].key,
                              indexCategories(states[i].val.categories))],
                NonEmpty)

\* the categories added up over the states
cityTotalCategories_sum(states) ==
  SumSeq([i \in 1..Len(states) |-> Len(states[i].categories)])

\* cityTotalCategories.size: the Set of the category names of the city
cityTotalCategories(states) ==
  Cardinality(UNION {{states[i].categories[c].name :
                         c \in 1..Len(states[i].categories)} :
                      i \in 1..Len(states)})

\* cityEntry with its summary
indexCity(cityName, states) ==
  [city |-> cityName,
   states |-> states,
   summary |->
     [totalStates |-> Len(states),
      totalCategories |-> cityTotalCategories(states),
      totalCrops |-> SumSeq([i \in 1..Len(states) |-> states[i].summary.totalCrops]),
      totalDemand |->
        SumSeq([i \in 1..Len(states) |-> states[i].summary.totalDemand]),
      unit |-> "tons per week"]]

\* result.cities before the sort: the cities with states.length > 0
indexCities(citiesMap) ==
  LET NonEmpty(cityEntry) == Len(cityEntry.states) > 0
  IN  SelectSeq([i \in 1..Len(citiesMap) |->
                   indexCity(citiesMap[i].key, indexStates(citiesMap[i].val.states))],
                NonEmpty)

\* the cities left as the Map holds them
sortCities_unsorted(cities) == cities

\* result.cities.sort((a, b) => a.city.localeCompare(b.city))
sortCities(cities) ==
  LET Before(a, b) == localeLess(a.city, b.city)
  IN  SortSeq(cities, Before)

\* result: totalCities is citiesMap.size
allCitiesResult(citiesMap) ==
  [totalCities |-> Len(citiesMap),
   cities |-> sortCities(indexCities(citiesMap))]

\* the handler
allCitiesHandler(dd) ==
  IF dd.null \/ Len(dd.data) = 0
  THEN unavailable
  ELSE [status |-> 200,
        body |-> allCitiesResult(buildCitiesMap(regionVisits(dd.data), <<>>))]

\* ------------------------------------------------------------------------
\* server.js: start-up and requests
\* ------------------------------------------------------------------------
\* the row events behind the demand.json files the server is started on
SnapEvents ==
  { [file |-> 1, row |-> 1], [file |-> 1, row |-> 2], [file |-> 2, row |-> 3],
    [file |-> 1, row |-> 4], [file |-> 1, row |-> 5], [file |-> 2, row |-> 6],
    [file |-> 2, row |-> 7] }

\* the aggregation state after the row events of es, handled in that order
RECURSIVE Build(_)
Build(es) ==
  IF es = <<>> THEN [map |-> <<>>, ids |-> 0]
  ELSE processRow(Build(SubSeq(es, 1, Len(es) - 1)),
                  Rows[es[Len(es)].row],
                  getCropNameFromFile(es[Len(es)].file))

\* the snapshot of a run that handles the row events in the order es
SnapshotOf(es) == finalizeData(Build(es).map, [i \in 1..Len(es) |-> 1])

\* demand.json as preprocess.js leaves it, or no file
SnapshotFiles ==
  {[exists |-> FALSE, parses |-> FALSE, content |-> <<>>]} \cup
  {[exists |-> TRUE, parses |-> TRUE, content |-> SnapshotOf(es)] :
     es \in UNION {[1..n -> SnapEvents] : n \in 0..MaxSnapRows}}

sHyderabadUpper == <<"H", "Y", "D", "E", "R", "A", "B", "A", "D">>
sTelanganaLower == <<"t", "e", "l", "a", "n", "g", "a", "n", "a">>
sAtlantis == <<"A", "t", "l", "a", "n", "t", "i", "s">>
sFruits == <<"F", "r", "u", "i", "t", "s">>

\* the requests: :cityName, ?state= and ?category=
CityParams == {sBangalore, sHyderabadLower, sHyderabadUpper, sAtlantis, <<" ">>}

StateQueries == {<<>>, sTelanganaLower, <<" ">> \o sKarnataka}

CategoryQueries == {<<>>, sVegetablesLower, sFruits}

\* a demand.json that JSON.parse rejects
DamagedFiles == {[exists |-> TRUE, parses |-> FALSE, content |-> <<>>]}

\* demandData after loadDemandData(): the parsed file; [] when the file is
\* missing and in the catch of JSON.parse
loadDemandData(file) ==
  [null |-> FALSE,
   data |-> IF file.exists /\ file.parses THEN file.content ELSE <<>>]

ServerInit ==
  /\ stateDataMap = <<>>
  /\ uuidCount = 0
  /\ streams = [f \in Files |-> "ended"]
  /\ pc = "off"
  /\ demandFile \in SnapshotFiles \cup DamagedFiles
  /\ delivered = EmptyBag
  /\ demandData = [null |-> TRUE, data |-> <<>>]
  /\ serving = FALSE
  /\ request = NoRequest
  /\ response = NoResponse

\* loadDemandData() at start-up, then app.listen
LoadDemandData ==
  /\ ~serving
  /\ demandData' = loadDemandData(demandFile)
  /\ serving' = TRUE
  /\ UNCHANGED <<stateDataMap, uuidCount, streams, pc, demandFile, delivered,
                 request, response>>

\* app.get('/api/demand/city/:cityName', ...)
GetCity(cityParam, stateQuery, categoryQuery) ==
  /\ serving
  /\ request' = [route |-> "city", cityName |-> cityParam,
                 state |-> stateQuery, category |-> categoryQuery]
  /\ response' = cityHandler(demandData, cityParam, stateQuery, categoryQuery)
  /\ demandData' = cityHandlerAfter(demandData, cityParam, stateQuery,
                                    categoryQuery)
  /\ UNCHANGED <<stateDataMap, uuidCount, streams, pc, demandFile, delivered,
                 serving>>

\* app.get('/api/demand/cities', ...): the handler writes to its own Set and
\* array only
GetCities ==
  /\ serving
  /\ request' = [route |-> "cities", cityName |-> <<>>, state |-> <<>>,
                 category |-> <<>>]
  /\ response' = citiesHandler(demandData)
  /\ UNCHANGED <<stateDataMap, uuidCount, streams, pc, demandFile, delivered,
                 demandData, serving>>

\* app.get('/api/demand/all-cities', ...): the handler writes to its own
\* Maps and to the arrays it creates for them
GetAllCities ==
  /\ serving
  /\ request' = [route |-> "all-cities", cityName |-> <<>>, state |-> <<>>,
                 category |-> <<>>]
  /\ response' = allCitiesHandler(demandData)
  /\ UNCHANGED <<stateDataMap, uuidCount, streams, pc, demandFile, delivered,
                 demandData, serving>>

ServerNext ==
  \/ LoadDemandData
  \/ GetCities
  \/ GetAllCities
  \/ \E c \in CityParams, st \in StateQueries, cat \in CategoryQueries :
       GetCity(c, st, cat)

ServerSpec == ServerInit /\ [][ServerNext]_vars

\* ------------------------------------------------------------------------
\* server.js started on a demand.json that was edited after the run
\* ------------------------------------------------------------------------
\* the demand quantities written by hand
EditedDemands == {0, -5}

cropWithDemand(crop, cropId, q) ==
  IF crop.cropId = cropId THEN [crop EXCEPT !.demandQuantity = q] ELSE crop

categoryWithDemand(category, cropId, q) ==
  [category EXCEPT
     !.crops = [k \in 1..Len(@) |-> cropWithDemand(@[k], cropId, q)]]

stateWithDemand(stateData, cropId, q) ==
  [stateData EXCEPT
     !.categories = [c \in 1..Len(@) |-> categoryWithDemand(@[c], cropId, q)]]

\* the snapshot with the demandQuantity of the crop cropId replaced by q
WithDemand(snap, cropId, q) ==
  [i \in 1..Len(snap) |-> stateWithDemand(snap[i], cropId, q)]

\* the files preprocess.js leaves, with the demand of one crop edited
EditedFiles ==
  {[exists |-> TRUE, parses |-> TRUE,
    content |-> WithDemand(f.content, cropId, q)] :
     f \in {g \in SnapshotFiles : g.exists /\ Len(g.content) > 0},
     cropId \in 1..MaxSnapRows, q \in EditedDemands}

EditedInit ==
  /\ stateDataMap = <<>>
  /\ uuidCount = 0
  /\ streams = [f \in Files |-> "ended"]
  /\ pc = "off"
  /\ demandFile \in EditedFiles
  /\ delivered = EmptyBag
  /\ demandData = [null |-> TRUE, data |-> <<>>]
  /\ serving = FALSE
  /\ request = NoRequest
  /\ response = NoResponse

EditedNext ==
  \/ LoadDemandData
  \/ GetCities
  \/ GetAllCities

EditedSpec == EditedInit /\ [][EditedNext]_vars

\* ------------------------------------------------------------------------
\* Vocabulary of the properties
\* ------------------------------------------------------------------------
RECURSIVE SetSum(_, _)
SetSum(S, f) ==
  IF S = {} THEN 0
  ELSE LET x == CHOOSE y \in S : TRUE IN f[x] + SetSum(S \ {x}, f)

\* every row event the streams can deliver, and what processRow reads in it
AllEvents == [file : Files, row : RowIds]

InfoOf(e) ==
  LET row == Rows[e.row]
      crop == rowCropName(row, getCropNameFromFile(e.file))
  IN  [merged |-> ~rowSkipped(row, getCropNameFromFile(e.file)),
       state |-> rowState(row),
       category |-> rowValidCategory(row, getCropNameFromFile(e.file)),
       cropName |-> crop,
       key |-> trim(toLowerCase(crop)),
       scientificName |-> rowScientificName(row),
       district |-> rowDistrict(row),
       suitability |-> rowSuitability(row),
       quantity |-> rowDemandQuantity(row)]

\* the same as a table, built once
Info == [e \in AllEvents |-> InfoOf(e)] @@ <<>>

\* the row events handled so far and those among them that were merged
Events == BagToSet(delivered)

MergedEvents == {e \in Events : Info[e].merged}

\* state, normalized category and lower-cased trimmed crop name of a row
GroupOf(e) == <<Info[e].state, Info[e].category, Info[e].key>>

\* the summed quantity of a set of handled row events
Quantity(es) == SetSum(es, [e \in es |-> delivered[e] * Info[e].quantity])

\* positions <<state, category, crop>> of the crops of a snapshot
CropRefs(snap) ==
  UNION {UNION {{<<i, c, k>> : k \in 1..Len(snap[i].categories[c].crops)} :
                 c \in 1..Len(snap[i].categories)} :
         i \in 1..Len(snap)}

CropAt(snap, r) == snap[r[1]].categories[r[2]].crops[r[3]]

\* state, category and lower-cased trimmed crop name of a snapshot crop
GroupAt(snap, r) ==
  <<snap[r[1]].state, snap[r[1]].categories[r[2]].name,
    trim(toLowerCase(CropAt(snap, r).cropName))>>

\* the crops held by stateDataMap, as [state, category, key, crop]
LiveCrops ==
  UNION {UNION {{[state |-> stateDataMap[i].key,
                  category |-> stateDataMap[i].val.categoriesMap[j].key,
                  key |-> stateDataMap[i].val.categoriesMap[j].val.cropsMap[k].key,
                  crop |-> stateDataMap[i].val.categoriesMap[j].val.cropsMap[k].val] :
                   k \in 1..Len(stateDataMap[i].val.categoriesMap[j].val.cropsMap)} :
                 j \in 1..Len(stateDataMap[i].val.categoriesMap)} :
         i \in 1..Len(stateDataMap)}

\* state, category and lower-cased trimmed crop name of a live crop
GroupOfLive(lc) ==
  <<lc.state, lc.category, trim(toLowerCase(lc.crop.cropName))>>

Facts(crop) ==
  {<<crop.regionalSuitability[i].district,
     crop.regionalSuitability[i].suitability>> :
     i \in 1..Len(crop.regionalSuitability)}

\* ------------------------------------------------------------------------
\* C1
\* ------------------------------------------------------------------------
\* C1 - Demand conservation: once finalizeData has run, the demandQuantity
\* of all crops of the snapshot adds up to the quantities of the merged rows,
\* and each crop's demandQuantity is the sum of the quantities of the rows
\* of its state, category and crop key.
DemandConservation ==
  pc = "done" =>
    LET snap == demandFile.content
        refs == CropRefs(snap)
        merged == MergedEvents
    IN  /\ SetSum(refs, [r \in refs |-> CropAt(snap, r).demandQuantity])
             = Quantity(merged)
        /\ \A r \in refs :
             CropAt(snap, r).demandQuantity
               = Quantity({e \in merged : GroupOf(e) = GroupAt(snap, r)})

\* a finished run in which two different rows were merged into one crop
DemandConservationWitness ==
  /\ pc = "done"
  /\ \E r \in CropRefs(demandFile.content) :
       Cardinality({e \in MergedEvents :
                      GroupOf(e) = GroupAt(demandFile.content, r)}) = 2

ScenarioReached ==
  \E lc \in LiveCrops :
    /\ lc.state = sKarnataka /\ lc.category = sVegetables
    /\ lc.crop.demandQuantity = 150
    /\ Facts(lc.crop) = {<<sBangalore, sHigh>>, <<sMysore, sMedium>>}
    /\ Len(lc.crop.regionalSuitability) = 2

\* ------------------------------------------------------------------------
\* C3
\* ------------------------------------------------------------------------
\* C3 - Region dedup: no crop holds two region facts with the same district
\* and suitability, and every merged row's (district, suitability) is a fact
\* of its crop, so one district at two suitability levels is kept twice.
RegionDedup ==
  LET live == LiveCrops
  IN  /\ \A lc \in live :
           Cardinality(Facts(lc.crop)) = Len(lc.crop.regionalSuitability)
      /\ \A e \in MergedEvents :
           \E lc \in live :
             /\ GroupOfLive(lc) = GroupOf(e)
             /\ <<Info[e].district, Info[e].suitability>> \in Facts(lc.crop)

\* a crop holding one district at two suitability levels
RegionDedupWitness ==
  \E lc \in LiveCrops :
    \E i \in 1..Len(lc.crop.regionalSuitability),
       j \in 1..Len(lc.crop.regionalSuitability) :
      /\ lc.crop.regionalSuitability[i].district
           = lc.crop.regionalSuitability[j].district
      /\ lc.crop.regionalSuitability[i].suitability
           # lc.crop.regionalSuitability[j].suitability

\* a row handled twice, its fact kept once
RegionRepeatSuppressed ==
  \E e \in MergedEvents : delivered[e] = 2

\* ------------------------------------------------------------------------
\* C4
\* ------------------------------------------------------------------------
\* C4 - Completeness: every state of the snapshot lists the names of
\* VALID_CATEGORIES, each once and in that order, and a category that no
\* merged row fell in has count 0 and no crops.
Completeness ==
  pc = "done" =>
    LET filled == {<<Info[e].state, Info[e].category>> : e \in MergedEvents}
    IN  \A i \in 1..Len(demandFile.content) :
          LET st == demandFile.content[i]
          IN  /\ [c \in 1..Len(st.categories) |-> st.categories[c].name]
                   = VALID_CATEGORIES
              /\ \A c \in 1..Len(st.categories) :
                   <<st.state, st.categories[c].name>> \notin filled
                   => /\ st.categories[c].count = 0
                      /\ st.categories[c].crops = <<>>

\* a snapshot with a state that has crops in some category
CompletenessWitness ==
  /\ pc = "done"
  /\ \E i \in 1..Len(demandFile.content) :
       \E c \in 1..Len(demandFile.content[i].categories) :
         demandFile.content[i].categories[c].count > 0

\* ------------------------------------------------------------------------
\* C5
\* ------------------------------------------------------------------------
\* a row that the rules of the normalizer reject: no state, no category, no
\* crop name, a quantity that is not a number or not above 0, or a category
\* outside the allowed set and its synonyms
Rejected(f, row) ==
  \/ rowState(row) = <<>>
  \/ rowCategory(row) = <<>>
  \/ rowCropName(row, getCropNameFromFile(f)) = <<>>
  \/ parseFloat(OrStr(row.demand_quantity,
                OrStr(row.ArrivalsTonnes, OrStr(row.Arrivals, <<"0">>)))).nan
  \/ parseFloat(OrStr(row.demand_quantity,
                OrStr(row.ArrivalsTonnes, OrStr(row.Arrivals, <<"0">>)))).val <= 0
  \/ mapCategoryToValid(rowCategory(row), <<>>) = NoCategory

RejectedEvents == {e \in AllEvents : Rejected(e.file, Rows[e.row])}

Orders ==
  LET n == BagCardinality(delivered)
  IN  {es \in [1..n -> Events] :
         \A e \in Events : Cardinality({i \in 1..n : es[i] = e}) = delivered[e]}

\* a snapshot without the order of its states and crops, without cropIds
\* and time stamps: the states, and per state and category the crops with
\* their names, demand and set of region facts
NamedView(snap) ==
  [states |-> {snap[i].state : i \in 1..Len(snap)},
   crops |-> {[state |-> snap[r[1]].state,
               category |-> snap[r[1]].categories[r[2]].name,
               cropName |-> CropAt(snap, r).cropName,
               scientificName |-> CropAt(snap, r).scientificName,
               demandQuantity |-> CropAt(snap, r).demandQuantity,
               regions |-> {CropAt(snap, r).regionalSuitability[k] :
                              k \in 1..Len(CropAt(snap, r).regionalSuitability)}] :
              r \in CropRefs(snap)}]

\* the same with each crop named by its lower-cased trimmed crop name only
KeyedView(snap) ==
  [states |-> {snap[i].state : i \in 1..Len(snap)},
   crops |-> {[state |-> snap[r[1]].state,
               category |-> snap[r[1]].categories[r[2]].name,
               key |-> trim(toLowerCase(CropAt(snap, r).cropName)),
               demandQuantity |-> CropAt(snap, r).demandQuantity,
               regions |-> {CropAt(snap, r).regionalSuitability[k] :
                              k \in 1..Len(CropAt(snap, r).regionalSuitability)}] :
              r \in CropRefs(snap)}]

CityAnswered ==
  /\ request.route = "city"
  /\ trim(request.cityName) # <<>>
  /\ ~demandData.null
  /\ Len(demandData.data) > 0

\* a filter is given when the query parameter is not blank
FilterGiven(q) == trim(q) # <<>>

SameIgnoringCase(a, b) == toLowerCase(a) = toLowerCase(b)

\* the snapshot crop at r has a region fact of the queried district
DistrictMatch(r) ==
  \E k \in 1..Len(CropAt(demandData.data, r).regionalSuitability) :
    SameIgnoringCase(CropAt(demandData.data, r).regionalSuitability[k].district,
                     trim(request.cityName))

\* the snapshot crop at r has a region fact of the queried district whose
\* state is the state that holds the crop
DistrictOfStateMatch(r) ==
  \E k \in 1..Len(CropAt(demandData.data, r).regionalSuitability) :
    /\ SameIgnoringCase(CropAt(demandData.data, r).regionalSuitability[k].district,
                        trim(request.cityName))
    /\ CropAt(demandData.data, r).regionalSuitability[k].state
         = demandData.data[r[1]].state

StateFilterPass(r) ==
  ~FilterGiven(request.state)
  \/ SameIgnoringCase(trim(request.state), demandData.data[r[1]].state)

CategoryFilterPass(r) ==
  ~FilterGiven(request.category)
  \/ SameIgnoringCase(trim(request.category),
                      demandData.data[r[1]].categories[r[2]].name)

\* positions <<state, category, crop>> of the crops of a city result
ResultRefs == CropRefs(response.body.data)

\* the snapshot crop at r is in the result under its state and category
InResult(r) ==
  /\ response.status = 200
  /\ \E q \in ResultRefs :
       /\ response.body.data[q[1]].state = demandData.data[r[1]].state
       /\ response.body.data[q[1]].categories[q[2]].name
            = demandData.data[r[1]].categories[r[2]].name
       /\ CropAt(response.body.data, q).cropId = CropAt(demandData.data, r).cropId

\* ------------------------------------------------------------------------
\* C7
\* ------------------------------------------------------------------------
\* C7 - Projection NotFound: a city query with a district on a loaded
\* snapshot is answered 404 exactly when no crop passes the state filter, the
\* category filter and the district match, and 200 with a non-empty data
\* list otherwise; a district of no region fact gives 404.
ProjectionNotFound ==
  CityAnswered =>
    LET retained == {r \in CropRefs(demandData.data) :
                       StateFilterPass(r) /\ CategoryFilterPass(r)
                       /\ DistrictOfStateMatch(r)}
    IN  /\ response.status = 404 <=> retained = {}
        /\ response.status # 404
           => response.status = 200 /\ Len(response.body.data) > 0
        /\ (\A r \in CropRefs(demandData.data) : ~DistrictMatch(r))
           => response.status = 404

\* Atlantis asked of a snapshot with crops
ProjectionNotFoundWitness ==
  /\ CityAnswered
  /\ request.cityName = sAtlantis
  /\ CropRefs(demandData.data) # {}
  /\ response.status = 404

\* a district of the snapshot that the filters leave without a crop
FilteredOutReached ==
  /\ CityAnswered
  /\ \E r \in CropRefs(demandData.data) : DistrictMatch(r)
  /\ response.status = 404

\* ------------------------------------------------------------------------
\* C8
\* ------------------------------------------------------------------------
\* C8 - Projection selection: a snapshot crop is in the city result under
\* its own state and category exactly when the state filter is absent or
\* equals its state ignoring case, the category filter is absent or equals
\* its category ignoring case, and it has a region fact of the queried
\* district (ignoring case) whose state is its state; nothing else is in the
\* result.
ProjectionSelection ==
  CityAnswered =>
    /\ \A r \in CropRefs(demandData.data) :
         InResult(r) <=> ( /\ StateFilterPass(r)
                           /\ CategoryFilterPass(r)
                           /\ DistrictOfStateMatch(r) )
    /\ response.status = 200 =>
         \A q \in ResultRefs :
           \E r \in CropRefs(demandData.data) :
             /\ response.body.data[q[1]].state = demandData.data[r[1]].state
             /\ response.body.data[q[1]].categories[q[2]].name
                  = demandData.data[r[1]].categories[r[2]].name
             /\ CropAt(response.body.data, q).cropId
                  = CropAt(demandData.data, r).cropId

\* hyderabad asked with state=telangana of a snapshot in which Karnataka and
\* Telangana both have a crop of that district: only Telangana's is returned
ProjectionSelectionWitness ==
  /\ CityAnswered
  /\ FilterGiven(request.state)
  /\ response.status = 200
  /\ \E r1 \in CropRefs(demandData.data), r2 \in CropRefs(demandData.data) :
       /\ demandData.data[r1[1]].state = sTelangana
       /\ demandData.data[r2[1]].state = sKarnataka
       /\ DistrictMatch(r1) /\ DistrictMatch(r2)
       /\ InResult(r1) /\ ~InResult(r2)

\* ------------------------------------------------------------------------
\* C9
\* ------------------------------------------------------------------------
\* C9 - Projected crop shape: every crop of a city result has the cropId,
\* cropName, scientificName, categoryId and demandQuantity of the snapshot
\* crop it stands for, and exactly one region fact, which is a fact of that
\* crop with the queried district (ignoring case) and the state that holds
\* the crop.
ProjectedCropShape ==
  (CityAnswered /\ response.status = 200) =>
    \A q \in ResultRefs :
      \E r \in CropRefs(demandData.data) :
        LET shown == CropAt(response.body.data, q)
            crop == CropAt(demandData.data, r)
        IN  /\ response.body.data[q[1]].state = demandData.data[r[1]].state
            /\ response.body.data[q[1]].categories[q[2]].name
                 = demandData.data[r[1]].categories[r[2]].name
            /\ shown.cropId = crop.cropId
            /\ shown.cropName = crop.cropName
            /\ shown.scientificName = crop.scientificName
            /\ shown.categoryId = crop.categoryId
            /\ shown.demandQuantity = crop.demandQuantity
            /\ Len(shown.regionalSuitability) = 1
            /\ \E k \in 1..Len(crop.regionalSuitability) :
                 shown.regionalSuitability[1] = crop.regionalSuitability[k]
            /\ SameIgnoringCase(shown.regionalSuitability[1].district,
                                trim(request.cityName))
            /\ shown.regionalSuitability[1].state = demandData.data[r[1]].state

\* the Tomato crop of demand 150 over Bangalore and Mysore, returned for
\* Bangalore with demand 150 and the single region Bangalore/High
ProjectedCropShapeWitness ==
  /\ CityAnswered
  /\ response.status = 200
  /\ \E q \in ResultRefs, r \in CropRefs(demandData.data) :
       /\ CropAt(response.body.data, q).cropId = CropAt(demandData.data, r).cropId
       /\ Len(CropAt(demandData.data, r).regionalSuitability) = 2
       /\ CropAt(response.body.data, q).demandQuantity = 150
       /\ Facts(CropAt(response.body.data, q)) = {<<sBangalore, sHigh>>}
       /\ Len(CropAt(response.body.data, q).regionalSuitability) = 1

\* ------------------------------------------------------------------------
\* C10
\* ------------------------------------------------------------------------
\* the district arguments that differ from the one of the last request in
\* letter case only
CaseVariants ==
  {c \in CityParams : c # request.cityName /\ SameIgnoringCase(c, request.cityName)}

\* an answer without the echo of the district argument: the city field of a
\* result, the city and message fields of a 404
WithoutEcho(answer) ==
  IF answer.status = 200
  THEN [status |-> 200, filters |-> answer.body.filters,
        note |-> answer.body.note, data |-> answer.body.data,
        summary |-> answer.body.summary]
  ELSE IF answer.status = 404
  THEN [status |-> 404, error |-> answer.body.error,
        suggestions |-> answer.body.suggestions]
  ELSE [status |-> answer.status, body |-> answer.body]

\* C10 as stated - Case-insensitivity: a city query whose district argument
\* differs from the last one in letter case only, with the same filters on
\* the same snapshot, gets an identical answer.
CaseInsensitivity ==
  (serving /\ request.route = "city") =>
    \A c \in CaseVariants :
      cityHandler(demandData, c, request.state, request.category) = response

\* C10 - Case-insensitivity, amended: it gets the same answer except for the
\* echo of the district argument: the same status, filters, data and summary.
CaseInsensitivityOfProjection ==
  (serving /\ request.route = "city") =>
    \A c \in CaseVariants :
      WithoutEcho(cityHandler(demandData, c, request.state, request.category))
        = WithoutEcho(response)

\* a successful query whose district has a variant in another case
CaseInsensitivityWitness ==
  /\ CityAnswered
  /\ response.status = 200
  /\ CaseVariants # {}

\* ------------------------------------------------------------------------
\* C11
\* ------------------------------------------------------------------------
\* no snapshot is loaded: demandData is null or the empty list
Unloaded == demandData.null \/ Len(demandData.data) = 0

\* a query has been answered
Queried == serving /\ request.route # "none"

\* C11 as stated - Snapshot unavailable: while no snapshot is loaded every
\* query (city, cities, all-cities) is answered 503, whatever its arguments.
SnapshotUnavailable ==
  (Queried /\ Unloaded) => response.status = 503

\* C11 - Snapshot unavailable, amended: while no snapshot is loaded every
\* query is answered 503, except the city query with a blank district, which
\* is answered 400.
SnapshotUnavailableUnlessBlank ==
  (Queried /\ Unloaded) =>
    IF request.route = "city" /\ trim(request.cityName) = <<>>
    THEN response.status = 400
    ELSE response.status = 503

\* a city query with a district and a filter on a demand.json that does not
\* parse
SnapshotUnavailableWitness ==
  /\ Queried
  /\ demandFile \in DamagedFiles
  /\ request.route = "city"
  /\ request.cityName = sBangalore
  /\ request.state # <<>>
  /\ response.status = 503

\* the listing routes on a missing file and on the empty list of a run
\* without rows
UnavailableListingsReached ==
  /\ Queried
  /\ request.route \in {"cities", "all-cities"}
  /\ \/ ~demandFile.exists
     \/ demandFile.parses /\ demandFile.content = <<>>
  /\ response.status = 503

\* ------------------------------------------------------------------------
\* C12
\* ------------------------------------------------------------------------
\* the answer to the query req on the snapshot dd
Answer(req, dd) ==
  CASE req.route = "city" ->
         cityHandler(dd, req.cityName, req.state, req.category)
    [] req.route = "cities" -> citiesHandler(dd)
    [] req.route = "all-cities" -> allCitiesHandler(dd)

DemandAt(snap, refs) ==
  SetSum(refs, [r \in refs |-> CropAt(snap, r).demandQuantity])

\* C13 - State summary invariant: in the snapshot of a finished run, for
\* every state each category's count is the length of its crops list,
\* summary.totalCrops is the sum of the category counts and
\* summary.totalDemand is the sum of demandQuantity over the crops of the
\* state.
StateSummaryInvariant ==
  pc = "done" =>
    \A i \in 1..Len(demandFile.content) :
      /\ \A c \in 1..Len(demandFile.content[i].categories) :
           demandFile.content[i].categories[c].count
             = Len(demandFile.content[i].categories[c].crops)
      /\ demandFile.content[i].summary.totalCrops
           = SumSeq([c \in 1..Len(demandFile.content[i].categories) |->
                       demandFile.content[i].categories[c].count])
      /\ demandFile.content[i].summary.totalDemand
           = DemandAt(demandFile.content,
                      {r \in CropRefs(demandFile.content) : r[1] = i})

\* a finished run with a state that has two crops in one category
StateSummaryWitness ==
  /\ pc = "done"
  /\ \E i \in 1..Len(demandFile.content) :
       /\ demandFile.content[i].summary.totalCrops = 2
       /\ demandFile.content[i].summary.totalDemand = 24
       /\ \E c \in 1..Len(demandFile.content[i].categories) :
            demandFile.content[i].categories[c].count = 2

\* ------------------------------------------------------------------------
\* C14
\* ------------------------------------------------------------------------
\* C14 - Projection summaries: in a successful city result every state has
\* a category and every category a crop; a category's count is its number
\* of crops; a state's totalCategories is its number of categories, its
\* totalCrops the sum of their counts and its totalDemand the summed
\* demandQuantity of its crops; the top-level totalStates is the number of
\* states and totalCategories, totalCrops and totalDemand are the sums of
\* the state-level values.
ProjectionSummaries ==
  (CityAnswered /\ response.status = 200) =>
    /\ \A i \in 1..Len(response.body.data) :
         /\ Len(response.body.data[i].categories) > 0
         /\ \A c \in 1..Len(response.body.data[i].categories) :
              /\ Len(response.body.data[i].categories[c].crops) > 0
              /\ response.body.data[i].categories[c].count
                   = Len(response.body.data[i].categories[c].crops)
         /\ response.body.data[i].summary.totalCategories
              = Len(response.body.data[i].categories)
         /\ response.body.data[i].summary.totalCrops
              = Cardinality({q \in ResultRefs : q[1] = i})
         /\ response.body.data[i].summary.totalDemand
              = DemandAt(response.body.data, {q \in ResultRefs : q[1] = i})
    /\ response.body.summary.totalStates = Len(response.body.data)
    /\ response.body.summary.totalCategories
         = Cardinality({<<q[1], q[2]>> : q \in ResultRefs})
    /\ response.body.summary.totalCrops = Cardinality(ResultRefs)
    /\ response.body.summary.totalDemand
         = DemandAt(response.body.data, ResultRefs)

\* hyderabad without filters on a snapshot that has the district in
\* Telangana (demand 3) and in Karnataka (demand 12): two states, 15 in all
ProjectionSummariesWitness ==
  /\ CityAnswered
  /\ response.status = 200
  /\ response.body.summary.totalStates = 2
  /\ response.body.summary.totalCrops = 2
  /\ response.body.summary.totalDemand = 15

\* ------------------------------------------------------------------------
\* Vocabulary of the city index properties
\* ------------------------------------------------------------------------
\* the last request was an all-cities query answered with the index
IndexAnswered ==
  serving /\ request.route = "all-cities" /\ response.status = 200

\* positions <<city, state, category, crop>> of the crop entries of an index
IndexRefsOf(cities) ==
  UNION {UNION {UNION {{<<i, j, c, k>> :
                          k \in 1..Len(cities[i].states[j].categories[c].crops)} :
                       c \in 1..Len(cities[i].states[j].categories)} :
                j \in 1..Len(cities[i].states)} :
         i \in 1..Len(cities)}

IndexRefs == IndexRefsOf(response.body.cities)

IndexCity(q) == response.body.cities[q[1]]

IndexState(q) == IndexCity(q).states[q[2]]

IndexCategory(q) == IndexState(q).categories[q[3]]

IndexCrop(q) == IndexCategory(q).crops[q[4]]

\* the districts of the region facts of a crop
Districts(crop) ==
  {crop.regionalSuitability[k].district : k \in 1..Len(crop.regionalSuitability)}

\* ------------------------------------------------------------------------
\* C15
\* ------------------------------------------------------------------------
\* C15 - City index dedup: in the all-cities result no two crop entries of
\* one city, state and category have the same cropId, and every snapshot
\* crop with demandQuantity > 0 has exactly one entry under each non-empty
\* district of its region facts.
CityIndexDedup ==
  IndexAnswered =>
    /\ \A q1 \in IndexRefs, q2 \in IndexRefs :
         ( /\ q1 # q2
           /\ IndexCity(q1).city = IndexCity(q2).city
           /\ IndexState(q1).state = IndexState(q2).state
           /\ IndexCategory(q1).name = IndexCategory(q2).name )
         => IndexCrop(q1).cropId # IndexCrop(q2).cropId
    /\ \A r \in CropRefs(demandData.data) :
         CropAt(demandData.data, r).demandQuantity > 0 =>
           \A d \in Districts(CropAt(demandData.data, r)) \ {<<>>} :
             Cardinality({q \in IndexRefs :
                            /\ IndexCity(q).city = d
                            /\ IndexCrop(q).cropId
                                 = CropAt(demandData.data, r).cropId}) = 1

\* a crop with two region facts of one district has one entry under it
CityIndexDedupWitness ==
  /\ IndexAnswered
  /\ \E r \in CropRefs(demandData.data) :
       /\ Len(CropAt(demandData.data, r).regionalSuitability) = 2
       /\ Districts(CropAt(demandData.data, r)) = {sBangalore}
       /\ \E q \in IndexRefs :
            /\ IndexCity(q).city = sBangalore
            /\ IndexCrop(q).cropId = CropAt(demandData.data, r).cropId

\* a crop with region facts of two districts has an entry under each
CropUnderTwoCitiesReached ==
  /\ IndexAnswered
  /\ \E r \in CropRefs(demandData.data) :
       /\ Districts(CropAt(demandData.data, r)) = {sBangalore, sMysore}
       /\ \E q1 \in IndexRefs, q2 \in IndexRefs :
            /\ IndexCity(q1).city = sBangalore
            /\ IndexCity(q2).city = sMysore
            /\ IndexCrop(q1).cropId = CropAt(demandData.data, r).cropId
            /\ IndexCrop(q2).cropId = CropAt(demandData.data, r).cropId

\* ------------------------------------------------------------------------
\* C16
\* ------------------------------------------------------------------------
\* the region facts of a list, whole entries
RegionSet(regionalSuitability) ==
  {regionalSuitability[k] : k \in 1..Len(regionalSuitability)}

\* C16 - City index region facts: in the all-cities result the region list
\* of a crop listed under city C and state S holds every region fact of the
\* snapshot crop with district C and state S, the facts for C at different
\* suitability levels included, and no fact of another district.
CityIndexRegionFacts ==
  IndexAnswered =>
    \A q \in IndexRefs :
      \A r \in CropRefs(demandData.data) :
        CropAt(demandData.data, r).cropId = IndexCrop(q).cropId =>
          RegionSet(IndexCrop(q).regionalSuitability)
            = {f \in RegionSet(CropAt(demandData.data, r).regionalSuitability) :
                 f.district = IndexCity(q).city /\ f.state = IndexState(q).state}

\* ------------------------------------------------------------------------
\* C17
\* ------------------------------------------------------------------------
\* C17 - City index zero-demand exclusion: for any loaded snapshot, also one
\* that holds crops with demandQuantity <= 0, every crop entry of the
\* all-cities result has demandQuantity > 0, and every city entry has a
\* state, every state a category and every category a crop.
CityIndexExcludesZeroDemand ==
  IndexAnswered =>
    /\ \A q \in IndexRefs : IndexCrop(q).demandQuantity > 0
    /\ \A i \in 1..Len(response.body.cities) :
         /\ Len(response.body.cities[i].states) > 0
         /\ \A j \in 1..Len(response.body.cities[i].states) :
              /\ Len(response.body.cities[i].states[j].categories) > 0
              /\ \A c \in 1..Len(response.body.cities[i].states[j].categories) :
                   /\ response.body.cities[i].states[j].categories[c].count > 0
                   /\ Len(response.body.cities[i].states[j].categories[c].crops) > 0

\* the snapshot holds a crop without demand in a named district and a crop
\* with demand; the index lists the second
CityIndexExcludesZeroDemandWitness ==
  /\ IndexAnswered
  /\ IndexRefs # {}
  /\ \E r \in CropRefs(demandData.data) :
       /\ CropAt(demandData.data, r).demandQuantity <= 0
       /\ Districts(CropAt(demandData.data, r)) \ {<<>>} # {}
       /\ \A q \in IndexRefs :
            IndexCrop(q).cropId # CropAt(demandData.data, r).cropId

\* a city whose only crop has no demand is counted but not listed
CityWithoutDemandReached ==
  /\ IndexAnswered
  /\ response.body.totalCities > Len(response.body.cities)

\* ------------------------------------------------------------------------
\* C18
\* ------------------------------------------------------------------------
\* the places of the letters of a name in the alphabet, case left aside;
\* 0 for any other character
AlphabetKey(name) ==
  [i \in 1..Len(name) |->
     IF \E n \in 1..26 : LowerLetters[n] = LowerChar(name[i])
     THEN CHOOSE n \in 1..26 : LowerLetters[n] = LowerChar(name[i])
     ELSE 0]

\* the category names found under a city of the index
CategoryNamesOf(city) ==
  UNION {{city.states[j].categories[c].name :
            c \in 1..Len(city.states[j].categories)} :
         j \in 1..Len(city.states)}

\* C18 - City index roll-up: in the all-cities result each city's
\* summary.totalCategories is the number of distinct category names under
\* the city over all its states, totalStates is the number of its states,
\* totalCrops and totalDemand are the sums of the state-level totals, and
\* the cities are in ascending alphabetical order of their names.
CityIndexRollUp ==
  IndexAnswered =>
    /\ \A i \in 1..Len(response.body.cities) :
         /\ response.body.cities[i].summary.totalCategories
              = Cardinality(CategoryNamesOf(response.body.cities[i]))
         /\ response.body.cities[i].summary.totalStates
              = Len(response.body.cities[i].states)
         /\ response.body.cities[i].summary.totalCrops
              = SumSeq([j \in 1..Len(response.body.cities[i].states) |->
                          response.body.cities[i].states[j].summary.totalCrops])
         /\ response.body.cities[i].summary.totalDemand
              = SumSeq([j \in 1..Len(response.body.cities[i].states) |->
                          response.body.cities[i].states[j].summary.totalDemand])
    /\ \A i \in 1..Len(response.body.cities), j \in 1..Len(response.body.cities) :
         i < j => ~lexLess(AlphabetKey(response.body.cities[j].city),
                           AlphabetKey(response.body.cities[i].city))

\* Bangalore with Vegetables in the states Karnataka and karnataka: two
\* states, one category
CityIndexRollUpWitness ==
  /\ IndexAnswered
  /\ \E i \in 1..Len(response.body.cities) :
       /\ response.body.cities[i].city = sBangalore
       /\ response.body.cities[i].summary.totalStates = 2
       /\ response.body.cities[i].summary.totalCategories = 1
       /\ response.body.cities[i].summary.totalCrops = 2

\* Mysore is met before Bangalore in the snapshot and listed after it
SortedIndexReached ==
  /\ IndexAnswered
  /\ Len(response.body.cities) = 2
  /\ response.body.cities[1].city = sBangalore
  /\ response.body.cities[2].city = sMysore
  /\ \E r \in CropRefs(demandData.data) :
       CropAt(demandData.data, r).regionalSuitability[1].district = sMysore

\* ------------------------------------------------------------------------
\* C19
\* ------------------------------------------------------------------------
\* C19 - No partial snapshot is published: under every interleaving of the
\* row events of the files, demand.json exists only when every stream has
\* ended, and then it holds the crops and the demand of all the rows that
\* were merged; no row is merged and the file is not written again after
\* that; when a stream has reported an error there is no demand.json.
NoPartialSnapshot ==
  /\ [](demandFile.exists =>
          /\ \A f \in Files : streams[f] = "ended"
          /\ {GroupAt(demandFile.content, r) : r \in CropRefs(demandFile.content)}
               = {GroupOf(e) : e \in MergedEvents}
          /\ DemandAt(demandFile.content, CropRefs(demandFile.content))
               = Quantity(MergedEvents))
  /\ []((\E f \in Files : streams[f] = "error") => ~demandFile.exists)
  /\ [][demandFile.exists =>
          /\ delivered' = delivered
          /\ demandFile' = demandFile]_vars

\* a written snapshot of a run in which both files delivered a merged row
NoPartialSnapshotWitness ==
  /\ pc = "done"
  /\ demandFile.exists
  /\ \A f \in Files : \E e \in MergedEvents : e.file = f

\* a run that merged a row, met a stream error and ended without a file
ErrorExitReached ==
  /\ pc = "exited"
  /\ MergedEvents # {}
  /\ ~demandFile.exists

\* ------------------------------------------------------------------------
\* C20
\* ------------------------------------------------------------------------
\* C20 - Single run timestamp: in the snapshot of one run every state has
\* the same summary.lastUpdated, also when the clock advances while
\* finalizeData goes through the states.
SingleRunTimestamp ==
  pc = "done" =>
    \A i \in 1..Len(demandFile.content), j \in 1..Len(demandFile.content) :
      demandFile.content[i].summary.lastUpdated
        = demandFile.content[j].summary.lastUpdated

\* ------------------------------------------------------------------------
\* C21
\* ------------------------------------------------------------------------
\* the row's own crop name: the first non-empty of crop_name and Variety
OwnCropName(row) == trim(OrStr(row.crop_name, OrStr(row.Variety, <<>>)))

\* a crop of the state and category of the merged row event e is stored
\* under the lower-cased name
StoredUnder(e, name) ==
  \E lc \in LiveCrops :
    /\ lc.state = Info[e].state
    /\ lc.category = Info[e].category
    /\ lc.key = trim(toLowerCase(name))

NoSuitabilityGiven(row) == OrStr(row.suitability, row.Suitability) = <<>>

\* C22 - Suitability domain: after any sequence of processed rows the
\* suitability of every region fact in the aggregation state is one of Low,
\* Medium, High, and the fact of a merged row that gives no suitability has
\* Medium.
SuitabilityDomain ==
  /\ \A lc \in LiveCrops :
       \A k \in 1..Len(lc.crop.regionalSuitability) :
         lc.crop.regionalSuitability[k].suitability \in {sLow, sMedium, sHigh}
  /\ \A e \in MergedEvents :
       NoSuitabilityGiven(Rows[e.row]) =>
         \E lc \in LiveCrops :
           /\ GroupOfLive(lc) = GroupOf(e)
           /\ <<Info[e].district, sMedium>> \in Facts(lc.crop)

\* ------------------------------------------------------------------------
\* C23
\* ------------------------------------------------------------------------
\* C23 - after any sequence of processed rows every region fact of a crop
\* records the name of the state under which the crop is stored, and every
\* crop has a region fact and a demandQuantity above 0.
CropsAreScopedToTheirState ==
  /\ \A i \in 1..Len(stateDataMap) :
       stateDataMap[i].val.state = stateDataMap[i].key
  /\ \A lc \in LiveCrops :
       /\ Len(lc.crop.regionalSuitability) >= 1
       /\ lc.crop.demandQuantity > 0
       /\ \A k \in 1..Len(lc.crop.regionalSuitability) :
            lc.crop.regionalSuitability[k].state = lc.state

\* crops of two states that have a district of the same name up to case
CropsAreScopedWitness ==
  \E lc1 \in LiveCrops, lc2 \in LiveCrops :
    /\ lc1.state = sKarnataka
    /\ lc2.state = sTelangana
    /\ \E d1 \in Districts(lc1.crop), d2 \in Districts(lc2.crop) :
         SameIgnoringCase(d1, d2)

\* ------------------------------------------------------------------------
\* C24
\* ------------------------------------------------------------------------
\* the cities listing has been answered from a loaded snapshot
ListingAnswered ==
  serving /\ request.route = "cities" /\ response.status = 200

\* the distinct non-empty districts of the region facts of the snapshot
SnapshotDistricts ==
  UNION {Districts(CropAt(demandData.data, r)) :
           r \in CropRefs(demandData.data)} \ {<<>>}

\* C24 - listing and projection agree: on a snapshot written by the
\* pipeline every district of the cities listing, asked as a city query
\* without filters, is answered 200 and never 404; and the listing holds
\* each distinct non-empty district of the region facts exactly once.
ListingAgreesWithProjection ==
  ListingAnswered =>
    /\ \A k \in 1..Len(response.body.cities) :
         cityHandler(demandData, response.body.cities[k], <<>>, <<>>).status = 200
    /\ {response.body.cities[k] : k \in 1..Len(response.body.cities)}
         = SnapshotDistricts
    /\ \A k \in 1..Len(response.body.cities),
          l \in 1..Len(response.body.cities) :
         response.body.cities[k] = response.body.cities[l] => k = l

\* a listing over a snapshot in which one district has two region facts and
\* two listed districts differ in case only
ListingAgreesWitness ==
  /\ ListingAnswered
  /\ \E r1 \in CropRefs(demandData.data), r2 \in CropRefs(demandData.data) :
       /\ r1 # r2
       /\ Districts(CropAt(demandData.data, r1))
            \cap Districts(CropAt(demandData.data, r2)) # {}
  /\ Len(response.body.cities) >= 1

\* two names of the listing that differ in case only, each a city of its own
ListingCaseVariantsReached ==
  /\ ListingAnswered
  /\ \E k \in 1..Len(response.body.cities),
        l \in 1..Len(response.body.cities) :
       /\ k # l
       /\ SameIgnoringCase(response.body.cities[k], response.body.cities[l])

\* ------------------------------------------------------------------------
\* C25
\* ------------------------------------------------------------------------
\* C25 - in every all-cities result totalCities is the number of entries of
\* the cities list, also when a district has only crops without demand.
IndexCountsItsCities ==
  IndexAnswered => response.body.totalCities = Len(response.body.cities)

====
